---- MODULE Spec2Model ----
(***************************************************************************)
(* Model of the MCP chat client of TradeCP (src/backend/calling_mcps.py):  *)
(* the interactive loop start_chat, one user turn                          *)
(* (_process_query_automatically, _execute_tools_sequentially,             *)
(* _generate_comprehensive_response, _generate_direct_response) and the    *)
(* <think>...</think> stripping that the client and the server apply to    *)
(* model output.                                                           *)
(*                                                                         *)
(* A text is a sequence of symbols.  The two markers are spelled out one   *)
(* character per symbol, so that str.find and slicing work on character    *)
(* positions as in Python; every other symbol stands for a run of          *)
(* characters holding no '<', '>' or whitespace (a JSON document, a word). *)
(***************************************************************************)
EXTENDS Integers, Sequences, FiniteSets, TLC

VARIABLES
    conversation_history,  \* self.conversation_history
    user_input,            \* the line start_chat read last, stripped
    executed_tools,        \* the executed_tools list of the current (or last) turn
    current_query,         \* user_query / current_query of the turn
    tool_request,          \* tool_name and parameters of the request being dispatched
    tool_result,           \* what the last call_tool of the turn did
    planning_prompt,       \* the prompt sent in the last planning round of the turn
    synthesis_prompt,      \* the prompt sent to the model by synthesis in this turn
    planning_response,     \* what the planning call of the round did, until the
                           \* final answer of the turn is there
    response,              \* the value _process_query_automatically returned
    printed,               \* the text start_chat printed after "Assistant:"
    pc,                    \* position of control
    returned_by,           \* the return statement that ended the turn
    planned,               \* the tool requests the planner made in this turn, in order
    raised,                \* for every dispatch of this turn, whether call_tool raised
    nsynth,                \* calls of _generate_comprehensive_response in this turn
    ndirect,               \* calls of _generate_direct_response in this turn
    history_before,        \* conversation_history when the turn started
    turns,                 \* turns started in this session
    dispatches,            \* tool dispatches made in this session
    content,               \* the text handed to the thinking-tag stripping
    stripped,              \* its result
    restripped,            \* the result of the stripping applied to its own result
    strip_pc,              \* "ready" before the stripping, "done" after it, "twice"
                           \* after the second application
    reply_text,            \* a planner reply J
    thinking,              \* a thinking text X
    plan_bare,             \* what the planner's parsing makes of J
    plan_wrapped,          \* what it makes of <think>X</think>J
    plan_pc,               \* "ready" before the two parsings, "done" after
    max_retries,           \* search_tickers: its parameter max_retries
    base_sleep,            \* search_tickers: its parameter base_sleep
    attempt,               \* search_tickers: the loop variable
    statuses,              \* search_tickers: the status of every response so far
    sleeps,                \* search_tickers: the duration of every sleep so far
    search_pc,             \* search_tickers: "loop", "returned" or "raised"
    search_outcome,        \* search_tickers: what it returned or raised
    sector_name,           \* get_sector_metrics: its parameter sector_name
    period,                \* get_sector_metrics: its parameter period
    provider_calls,        \* get_sector_metrics: calls made to the data provider
    sector_outcome,        \* what the tool get_stock_sector_metrics returned or raised
    selection_criteria,    \* what summarize_stock_data read from the criteria resource
    system_msg,            \* the system message summarize_stock_data built
    data,                  \* TechnicalAnalysis.data: the closing prices, one per row
    res_rows,              \* the rows of res_df
    sup_rows,              \* the rows of sup_df
    score_added,           \* whether res_df and sup_df have the column 'Score'
    tech_result,           \* what get_data_in_shape returned or raised
    tech_pc,               \* position of control in get_data_in_shape
    sector_pc              \* position in the dispatch of get_stock_sector_metrics

vars == << conversation_history, user_input, executed_tools, current_query, tool_request,
           tool_result, planning_prompt, synthesis_prompt, planning_response, response, printed, pc,
           returned_by, planned, raised, nsynth, ndirect, history_before, turns,
           dispatches, content, stripped, restripped, strip_pc, reply_text, thinking,
           plan_bare, plan_wrapped, plan_pc, max_retries, base_sleep, attempt,
           statuses, sleeps, search_pc, search_outcome, sector_name, period,
           provider_calls, sector_outcome, selection_criteria, system_msg,
           sector_pc, data, res_rows, sup_rows, score_added, tech_result, tech_pc >>

\* what lives as long as the session
session_vars == << conversation_history, response, printed, turns, dispatches >>

\* what belongs to one turn
turn_vars == << executed_tools, current_query, tool_request, tool_result,
               planning_prompt, synthesis_prompt, planning_response, returned_by, planned, raised,
               nsynth, ndirect, history_before >>

chat_vars == << conversation_history, user_input, executed_tools, current_query, tool_request,
                tool_result, planning_prompt, synthesis_prompt, planning_response, response, printed,
                pc, returned_by, planned, raised, nsynth, ndirect, history_before,
                turns, dispatches >>

strip_vars == << content, stripped, restripped, strip_pc >>

plan_vars == << reply_text, thinking, plan_bare, plan_wrapped, plan_pc >>

search_vars == << max_retries, base_sleep, attempt, statuses, sleeps, search_pc,
                 search_outcome >>

sector_vars == << sector_name, period, provider_calls, sector_outcome,
                 selection_criteria, system_msg, sector_pc >>

\* what the chat loop never touches: the variables of the functions studied apart
tech_vars == << data, res_rows, sup_rows, score_added, tech_result, tech_pc >>

aside_vars == << strip_vars, plan_vars, search_vars, sector_vars, tech_vars >>

\* ------------------------------------------------------------------ bounds

\* Tool dispatches explored in one session (the code itself has no limit).
MaxDispatches == 2

\* Turns explored in one session.
MaxTurns == 2

\* Pieces an input of the stripping is built from.
MaxPieces == 4

\* Pieces a planner reply parsed apart from a turn is built from.
MaxPlanPieces == 2

\* The largest max_retries search_tickers is called with (its default is 5).
MaxRetries == 3

\* ------------------------------------------------------------------- texts

OpenTag == << "<", "t", "h", "i", "n", "k", ">" >>

CloseTag == << "<", "/", "t", "h", "i", "n", "k", ">" >>

WhiteSpace == { " " }

\* sub occurs in text at the 0-based position i
OccursAt(text, sub, i) ==
    /\ i >= 0
    /\ i + Len(sub) <= Len(text)
    /\ SubSeq(text, i + 1, i + Len(sub)) = sub

\* Python: sub in text
Contains(text, sub) ==
    \E i \in 0..(Len(text) - Len(sub)) : OccursAt(text, sub, i)

\* Python: text.find(sub), the lowest position of sub or -1
Find(text, sub) ==
    IF Contains(text, sub)
    THEN CHOOSE i \in 0..(Len(text) - Len(sub)) :
            /\ OccursAt(text, sub, i)
            /\ \A j \in 0..(i - 1) : ~OccursAt(text, sub, j)
    ELSE -1

\* Python: text[lo:hi] for 0 <= lo and 0 <= hi <= len(text)
Slice(text, lo, hi) ==
    IF lo >= hi THEN << >> ELSE SubSeq(text, lo + 1, hi)

\* Python: text.strip()
PyStrip(text) ==
    LET keep == { i \in 1..Len(text) : text[i] \notin WhiteSpace }
    IN  IF keep = {} THEN << >>
        ELSE SubSeq(text,
                    CHOOSE i \in keep : \A j \in keep : i <= j,
                    CHOOSE i \in keep : \A j \in keep : j <= i)

\* A stripping that forgets to ask for the closing marker.
StripThinkNoCloseTest(text) ==
    IF text # << >> /\ Contains(text, OpenTag)
    THEN LET start == Find(text, OpenTag)
             end   == Find(text, CloseTag) + Len(CloseTag)
         IN  Slice(text, 0, start) \o Slice(text, end, Len(text))
    ELSE text

\* The thinking-tag stripping, as written at every place that applies it.
StripThink(text) ==
    IF text # << >> /\ Contains(text, OpenTag) /\ Contains(text, CloseTag)
    THEN LET start == Find(text, OpenTag)
             end   == Find(text, CloseTag) + Len(CloseTag)
         IN  Slice(text, 0, start) \o Slice(text, end, Len(text))
    ELSE text

\* -------------------------------------------------- the planner's JSON reply

NoValue == "None"

EmptyParams == "{}"

\* A JSON object with the given keys; tool and params are read only under their key.
JObject(keys, tool, params) ==
    [kind |-> "object", keys |-> keys, tool |-> tool, params |-> params]

\* A JSON value that is no object, as an element of an array.
JOther(kind) ==
    [kind |-> kind, keys |-> {}, tool |-> NoValue, params |-> NoValue]

\* A JSON document: its kind, its truth value in Python, and its elements if an array.
JDoc(kind, truthy, items) ==
    [kind |-> kind, truthy |-> truthy, items |-> items]

ReqTicker == JObject({"tool", "params"}, "get_ticker_from_name", "name=Apple")

ReqPrice == JObject({"tool", "params"}, "get_stock_price", "ticker=AAPL")

ReqBare == JObject({}, NoValue, NoValue)

\* The JSON documents of the model, each one symbol of a text.
JsonDocs ==
    [ d \in { "[]", "[ticker]", "[price]", "[price,ticker]", "[{}]",
              "[1]", "5", "{k:1}", "'s'", "null" } |->
        CASE d = "[]"             -> JDoc("array", FALSE, << >>)
          [] d = "[ticker]"       -> JDoc("array", TRUE, << ReqTicker >>)
          [] d = "[price]"        -> JDoc("array", TRUE, << ReqPrice >>)
          [] d = "[price,ticker]" -> JDoc("array", TRUE, << ReqPrice, ReqTicker >>)
          [] d = "[{}]"           -> JDoc("array", TRUE, << ReqBare >>)
          [] d = "[1]"            -> JDoc("array", TRUE, << JOther("number") >>)
          [] d = "5"              -> JDoc("number", TRUE, << >>)
          [] d = "{k:1}"          -> JDoc("object", TRUE, << >>)
          [] d = "'s'"            -> JDoc("string", TRUE, << >>)
          [] d = "null"           -> JDoc("null", FALSE, << >>) ]

\* json.loads: whitespace around the document is skipped; anything that is not
\* exactly one document raises JSONDecodeError.
JsonLoads(text) ==
    LET t == PyStrip(text)
    IN  IF Len(t) = 1 /\ t[1] \in DOMAIN JsonDocs
        THEN [ok |-> TRUE, value |-> JsonDocs[t[1]]]
        ELSE [ok |-> FALSE, value |-> JDoc("null", FALSE, << >>)]

\* dict.get(key, default)
DictGet(obj, key, default) ==
    IF key \in obj.keys THEN obj[key] ELSE default

ToolBranch(tool, params) ==
    [branch |-> "tool", tool |-> tool, params |-> params, message |-> << >>]

FallbackBranch ==
    [branch |-> "fallback", tool |-> NoValue, params |-> NoValue, message |-> << >>]

ExceptionBranch(message) ==
    [branch |-> "exception", tool |-> NoValue, params |-> NoValue, message |-> message]

\* A parsing block that takes the last element of the array as the request.
ParsePlanLastElement(planning_text) ==
    IF planning_text = << >> THEN FallbackBranch
    ELSE LET r == JsonLoads(planning_text)
             v == r.value
         IN  IF ~r.ok \/ ~v.truthy THEN FallbackBranch
             ELSE IF v.kind # "array"
                  THEN ExceptionBranch(<< "TypeError" >>)
             ELSE IF v.items[Len(v.items)].kind # "object"
                  THEN ExceptionBranch(<< "AttributeError: no get" >>)
             ELSE ToolBranch(DictGet(v.items[Len(v.items)], "tool", NoValue),
                             DictGet(v.items[Len(v.items)], "params", EmptyParams))

\* What the parsing block does with the planning text: dispatch a tool, fall back
\* on one of the three "no tool" branches, or raise into the outer handler.
ParsePlan(planning_text) ==
    IF planning_text = << >> THEN FallbackBranch
    ELSE LET r == JsonLoads(planning_text)
             v == r.value
         IN  IF ~r.ok THEN FallbackBranch
             ELSE IF ~v.truthy THEN FallbackBranch
             ELSE IF v.kind \notin {"array", "object", "string"}
                  THEN ExceptionBranch(<< "TypeError: no len()" >>)
             ELSE IF v.kind = "object"
                  THEN ExceptionBranch(<< "KeyError: 0" >>)
             ELSE IF v.kind = "string"
                  THEN ExceptionBranch(<< "AttributeError: no get" >>)
             ELSE IF v.items[1].kind # "object"
                  THEN ExceptionBranch(<< "AttributeError: no get" >>)
             ELSE ToolBranch(DictGet(v.items[1], "tool", NoValue),
                             DictGet(v.items[1], "params", EmptyParams))

\* A planner text handling that leaves the thinking span in the text it parses.
PlanningTextUnstripped(raw) ==
    PyStrip(raw)

\* The planning text: the reply trimmed, then the thinking span removed.
PlanningText(raw) ==
    StripThink(PyStrip(raw))

\* ------------------------------------------------------ the collaborators

ThinkSpan == OpenTag \o << "internal" >> \o CloseTag

\* The free-text queries typed by the user.
Queries == { << "price", " ", "of", " ", "Apple" >> }

\* The contents the model returns to a planning prompt.
PlannerContents ==
    { << d >> : d \in DOMAIN JsonDocs }
      \cup { ThinkSpan \o << "[]" >>,
             << " " >> \o ThinkSpan \o << " ", "[ticker]", " " >>,
             ThinkSpan,
             << "I", " ", "think" >> }

\* The contents the model returns to a synthesis or a direct-response prompt.
AnswerContents ==
    { << "answer" >>, << " " >> \o ThinkSpan \o << "final", " ", "answer", " " >> }

ChatError == << "connection", " ", "refused" >>

\* The tools the server lists.
Catalog == { "get_ticker_from_name", "get_stock_price" }

Returns(parts) == [raises |-> FALSE, message |-> << >>, parts |-> parts]

Raises(message) == [raises |-> TRUE, message |-> message, parts |-> << >>]

\* What call_tool may do: the ticker lookup returns two content parts or fails
\* upstream, the price tool returns one part or none; any other name is refused.
ToolOutcomes(tool_name) ==
    CASE tool_name = "get_ticker_from_name" ->
             { Returns(<< << "AAPL" >>, << "second", " ", "part" >> >>),
               Raises(<< "upstream", " ", "failure" >>) }
      [] tool_name = "get_stock_price" ->
             { Returns(<< << "190.5" >> >>), Returns(<< >>) }
      [] OTHER ->
             { Raises(<< "Unknown", " ", "tool" >>) }

\* The JSON document the model put in its reply, if any (at most one per reply).
DocSymbols(reply) ==
    { reply[i] : i \in 1..Len(reply) } \cap DOMAIN JsonDocs

\* The request the model made in its reply: element 0 of the document it sent.
RequestSent(reply) ==
    JsonDocs[CHOOSE d \in DocSymbols(reply) : TRUE].items[1]

\* ----------------------------------------------------------- one user turn

NoRequest == [tool_name |-> NoValue, parameters |-> NoValue]

\* call_tool was not called in this turn yet.
NoCall == [raises |-> FALSE, message |-> << "not called" >>, parts |-> << >>]

\* A "Previous tool results" block that leaves out the entries of failed calls.
ContextWithoutErrors(trace) ==
    LET kept == SelectSeq(trace, LAMBDA e : Head(e.result) # "Error: ")
    IN  [i \in 1..Len(kept) |-> << kept[i].tool_name, kept[i].result >>]

\* The "Previous tool results" block: one line per entry, its name and its result.
Context(trace) ==
    [i \in 1..Len(trace) |-> << trace[i].tool_name, trace[i].result >>]

\* A planning prompt that also quotes what the conversation history holds.
PlanningPromptWithHistory(self_history, query, trace) ==
    [tool_descriptions |-> Catalog,
     query             |-> query,
     context           |-> Context(trace)
                             \o [i \in 1..Len(self_history) |->
                                    << self_history[i].role, self_history[i].content >>]]

\* The planning prompt the method builds from what it can reach: the object's
\* history (through self), the query, and the trace; the tool descriptions are the
\* same in every round.
PlanningPrompt(self_history, query, trace) ==
    [tool_descriptions |-> Catalog,
     query             |-> query,
     context           |-> Context(trace)]

NoPrompt == [tool_descriptions |-> {}, query |-> << >>, context |-> << >>]

\* The synthesis prompt: the query, the number of tools used, and one
\* "Tool i (name): result" block per entry.
SynthesisPrompt(user_query, tool_results) ==
    [query   |-> user_query,
     count   |-> Len(tool_results),
     results |-> [i \in 1..Len(tool_results) |->
                    << i, tool_results[i].tool_name, tool_results[i].result >>]]

NoSynthesisPrompt == [query |-> << >>, count |-> 0, results |-> << >>]

NoPlanning == [status |-> "none", content |-> << >>]

Message(role, text) == [role |-> role, content |-> text]

\* The entry appended for a dispatch that raised e: f"Error: {str(e)}".
ErrorResult(message) == << "Error: " >> \o message

\* A tool output that runs all content parts together.
RECURSIVE ToolOutputAllParts(_)
ToolOutputAllParts(parts) ==
    IF parts = << >> THEN << "No result" >>
    ELSE IF Len(parts) = 1 THEN parts[1]
    ELSE parts[1] \o ToolOutputAllParts(Tail(parts))

\* tool_result[0].text if tool_result else "No result"
ToolOutput(parts) ==
    IF parts # << >> THEN parts[1] ELSE << "No result" >>

\* A dispatch whose failure is recorded like a success.
ToolResultErrorUnmarked(outcome) ==
    IF outcome.raises THEN outcome.message ELSE ToolOutput(outcome.parts)

\* The result recorded for a dispatch, returned or raised.
ToolResult(outcome) ==
    IF outcome.raises THEN ErrorResult(outcome.message) ELSE ToolOutput(outcome.parts)

\* An insertion at the front instead of the end.
ExecutedPrepend(trace, request, result) ==
    << [tool_name  |-> request.tool_name,
        parameters |-> request.parameters,
        result     |-> result] >> \o trace

\* A recording that keeps only the newest entry.
ExecutedOverwrite(trace, request, result) ==
    << [tool_name  |-> request.tool_name,
        parameters |-> request.parameters,
        result     |-> result] >>

\* executed_tools.append({'tool_name': ..., 'parameters': ..., 'result': ...})
ExecutedAppend(trace, request, result) ==
    Append(trace, [tool_name  |-> request.tool_name,
                   parameters |-> request.parameters,
                   result     |-> result])

\* A choice of the final step that synthesizes whatever the trace holds.
FinalStepAlwaysSynthesis(trace) == "synthesizing"

\* if executed_tools: synthesis, else: direct response (the three "no tool" branches)
FinalStep(trace) ==
    IF trace # << >> THEN "synthesizing" ELSE "direct_response"

\* An outer handler that answers directly when nothing was executed.
HandlerStepDirect(trace) ==
    IF trace # << >> THEN "synthesizing" ELSE "direct_response"

\* The outer handler: synthesis if executed_tools, else return the error string.
HandlerStep(trace) ==
    IF trace # << >> THEN "synthesizing" ELSE "returned"

\* A join that puts the results in the reverse of the trace order.
RECURSIVE JoinResultsReversed(_)
JoinResultsReversed(trace) ==
    IF trace = << >> THEN << >>
    ELSE IF Len(trace) = 1 THEN trace[1].result
    ELSE JoinResultsReversed(Tail(trace)) \o << " " >> \o trace[1].result

\* ' '.join(results)
RECURSIVE JoinResults(_)
JoinResults(trace) ==
    IF trace = << >> THEN << >>
    ELSE IF Len(trace) = 1 THEN trace[1].result
    ELSE trace[1].result \o << " " >> \o JoinResults(Tail(trace))

SynthesisFallback(trace) ==
    << "Based on the collected information: " >> \o JoinResults(trace)

QueryError(message) == << "Error in query processing: " >> \o message

DirectError(message) == << "Error generating response: " >> \o message

\* ------------------------------------------------------ the interactive loop

LowerSymbol(c) ==
    CASE c = "QUIT"  -> "quit"
      [] c = "Clear" -> "clear"
      [] c = "TOOLS" -> "tools"
      [] OTHER       -> c

\* Python: text.lower()
PyLower(text) == [i \in 1..Len(text) |-> LowerSymbol(text[i])]

\* The lines the user may type, before input(...).strip().
UserInputs ==
    { << "quit" >>, << " ", "QUIT" >>, << "clear" >>, << "Clear", " " >>,
      << "tools" >>, << "TOOLS" >>, << >>, << " " >> }
      \cup Queries \cup { << " " >> \o q \o << " " >> : q \in Queries }

\* A test for the commands that tells upper case from lower case.
IsCommandCaseSensitive(line) ==
    line \in { << "quit" >>, << "clear" >>, << "tools" >> }

\* user_input.lower() is 'quit', 'clear' or 'tools'
IsCommand(line) ==
    PyLower(line) \in { << "quit" >>, << "clear" >>, << "tools" >> }

ChatInit ==
    /\ conversation_history = << >>
    /\ user_input = << >>
    /\ response = << >>
    /\ printed = << >>
    /\ turns = 0
    /\ dispatches = 0
    /\ pc = "input"
    /\ executed_tools = << >>
    /\ current_query = << >>
    /\ tool_request = NoRequest
    /\ tool_result = NoCall
    /\ planning_prompt = NoPrompt
    /\ synthesis_prompt = NoSynthesisPrompt
    /\ planning_response = NoPlanning
    /\ returned_by = "none"
    /\ planned = << >>
    /\ raised = << >>
    /\ nsynth = 0
    /\ ndirect = 0
    /\ history_before = << >>

\* Nothing is handed to the stripping.
StripIdle ==
    /\ content = << >>
    /\ stripped = << >>
    /\ restripped = << >>
    /\ strip_pc = "idle"

NoPlan == [branch |-> "none", tool |-> NoValue, params |-> NoValue, message |-> << >>]

\* No planner reply is being parsed apart from a turn.
PlanIdle ==
    /\ reply_text = << >>
    /\ thinking = << >>
    /\ plan_bare = NoPlan
    /\ plan_wrapped = NoPlan
    /\ plan_pc = "idle"

\* search_tickers is not running.
SearchIdle ==
    /\ max_retries = 0
    /\ base_sleep = 0
    /\ attempt = 0
    /\ statuses = << >>
    /\ sleeps = << >>
    /\ search_pc = "idle"
    /\ search_outcome = "none"

\* get_stock_sector_metrics is not running.
SectorIdle ==
    /\ sector_name = ""
    /\ period = ""
    /\ provider_calls = 0
    /\ sector_outcome = NoCall
    /\ selection_criteria = << >>
    /\ system_msg = << >>
    /\ sector_pc = "idle"

\* The levels of a history that was not looked at: None, with no points.
NoLevels == [is_none |-> TRUE, points |-> {}]

NoTechResult ==
    [raises |-> FALSE, error |-> "none", Ressistance_levels |-> NoLevels,
     Support_levels |-> NoLevels, trend |-> << >>, trend_duration |-> 0,
     triangle_pattern |-> "none"]

\* get_data_in_shape is not running.
TechIdle ==
    /\ data = << >>
    /\ res_rows = {}
    /\ sup_rows = {}
    /\ score_added = FALSE
    /\ tech_result = NoTechResult
    /\ tech_pc = "idle"

Init ==
    /\ ChatInit
    /\ StripIdle
    /\ PlanIdle
    /\ SearchIdle
    /\ SectorIdle
    /\ TechIdle

\* 'quit': leave the loop.
Quit ==
    /\ pc = "input"
    /\ \E raw \in UserInputs :
         /\ PyLower(PyStrip(raw)) = << "quit" >>
         /\ user_input' = PyStrip(raw)
    /\ pc' = "stopped"
    /\ UNCHANGED << session_vars, turn_vars, aside_vars >>

\* Ctrl-C while the loop waits for a line: "Goodbye!" and leave the loop.
KeyboardInterrupt ==
    /\ pc = "input"
    /\ pc' = "stopped"
    /\ UNCHANGED << session_vars, turn_vars, user_input, aside_vars >>

\* Any other exception in the loop body (input() itself failing, say): it is
\* printed and the loop reads the next line.
LoopCatches ==
    /\ pc = "input"
    /\ UNCHANGED vars

\* 'clear': empty the history and read the next line.
Clear ==
    /\ pc = "input"
    /\ \E raw \in UserInputs :
         /\ PyLower(PyStrip(raw)) = << "clear" >>
         /\ user_input' = PyStrip(raw)
    /\ conversation_history' = << >>
    /\ UNCHANGED << response, printed, turns, dispatches, pc, turn_vars, aside_vars >>

\* 'tools': print the catalog and read the next line.
ListTools ==
    /\ pc = "input"
    /\ \E raw \in UserInputs :
         /\ PyLower(PyStrip(raw)) = << "tools" >>
         /\ user_input' = PyStrip(raw)
    /\ UNCHANGED << session_vars, pc, turn_vars, aside_vars >>

\* An empty line: read the next line.
EmptyInput ==
    /\ pc = "input"
    /\ \E raw \in UserInputs :
         /\ PyStrip(raw) = << >>
         /\ user_input' = PyStrip(raw)
    /\ UNCHANGED << session_vars, pc, turn_vars, aside_vars >>

\* A turn that starts on the list an earlier turn left behind (one list shared by
\* all turns instead of a fresh one).
ProcessQueryLeftoverTrace ==
    /\ pc = "input"
    /\ turns < MaxTurns
    /\ \E raw \in UserInputs :
         LET line == PyStrip(raw)
         IN  /\ ~IsCommand(line)
             /\ line # << >>
             /\ user_input' = line
             /\ conversation_history' =
                    Append(conversation_history, Message("user", line))
             /\ current_query' = line
    /\ history_before' = conversation_history
    /\ executed_tools' =
           IF dispatches > 0
           THEN << [tool_name  |-> "get_ticker_from_name",
                    parameters |-> "name=Apple",
                    result     |-> << "AAPL" >>] >>
           ELSE << >>
    /\ turns' = turns + 1
    /\ pc' = "planning"
    /\ response' = << >>
    /\ printed' = << >>
    /\ UNCHANGED << dispatches, tool_request, tool_result, planning_prompt, synthesis_prompt,
                    planning_response, returned_by, planned, raised, nsynth, ndirect,
                    aside_vars >>

\* Any other line starts a turn: _process_query_automatically appends the user
\* entry and enters _execute_tools_sequentially with a fresh executed_tools.
\* The response of the turn before is dead from here on (the assignment that ends
\* this turn overwrites it before anything reads it), so the model drops it.
ProcessQuery ==
    /\ pc = "input"
    /\ turns < MaxTurns
    /\ \E raw \in UserInputs :
         LET line == PyStrip(raw)
         IN  /\ ~IsCommand(line)
             /\ line # << >>
             /\ user_input' = line
             /\ conversation_history' =
                    Append(conversation_history, Message("user", line))
             /\ current_query' = line
    /\ history_before' = conversation_history
    /\ executed_tools' = << >>
    /\ turns' = turns + 1
    /\ pc' = "planning"
    /\ response' = << >>
    /\ printed' = << >>
    /\ UNCHANGED << dispatches, tool_request, tool_result, planning_prompt, synthesis_prompt,
                    planning_response, returned_by, planned, raised, nsynth, ndirect,
                    aside_vars >>

\* The planning round ends without a tool: enter synthesis or the direct response,
\* or return the error string of the outer handler.
EndPlanning(step, message) ==
    /\ planning_prompt' =
           PlanningPrompt(conversation_history, current_query, executed_tools)
    /\ synthesis_prompt' =
           IF step = "synthesizing"
           THEN SynthesisPrompt(current_query, executed_tools)
           ELSE synthesis_prompt
    /\ pc' = step
    /\ nsynth' = IF step = "synthesizing" THEN nsynth + 1 ELSE nsynth
    /\ ndirect' = IF step = "direct_response" THEN ndirect + 1 ELSE ndirect
    /\ response' = IF step = "returned" THEN QueryError(message) ELSE response
    /\ returned_by' = IF step = "returned" THEN "query_error" ELSE returned_by
    /\ UNCHANGED << conversation_history, printed, turns, dispatches, executed_tools,
                    current_query, tool_request, tool_result, planned, raised,
                    history_before, user_input, aside_vars >>

\* ollama.chat raises in the planning round.
PlanChatRaises ==
    /\ pc = "planning"
    /\ planning_response' = [status |-> "raised", content |-> ChatError]
    /\ EndPlanning(HandlerStep(executed_tools), ChatError)

\* The planner asks for a tool: element 0 of the array becomes the request.
PlanTool ==
    /\ pc = "planning"
    /\ dispatches < MaxDispatches
    /\ \E c \in PlannerContents :
         LET plan == ParsePlan(PlanningText(c))
         IN  /\ plan.branch = "tool"
             /\ planning_response' = [status |-> "replied", content |-> c]
             /\ tool_request' = [tool_name |-> plan.tool, parameters |-> plan.params]
             /\ planned' = Append(planned, RequestSent(c))
    /\ planning_prompt' =
           PlanningPrompt(conversation_history, current_query, executed_tools)
    /\ pc' = "executing"
    /\ UNCHANGED << session_vars, executed_tools, current_query, tool_result,
                    synthesis_prompt, returned_by, raised, nsynth, ndirect,
                    history_before, user_input, aside_vars >>

\* The planner asks for no tool: empty text, undecodable text, or a falsy document.
PlanNoTool ==
    /\ pc = "planning"
    /\ \E c \in PlannerContents :
         /\ ParsePlan(PlanningText(c)).branch = "fallback"
         /\ planning_response' = [status |-> "replied", content |-> c]
    /\ EndPlanning(FinalStep(executed_tools), << >>)

\* The parsing block raises something that is no JSONDecodeError.
PlanParseRaises ==
    /\ pc = "planning"
    /\ \E c \in PlannerContents :
         LET plan == ParsePlan(PlanningText(c))
         IN  /\ plan.branch = "exception"
             /\ planning_response' = [status |-> "replied", content |-> c]
             /\ EndPlanning(HandlerStep(executed_tools), plan.message)

\* A dispatch that is not awaited: the next planning round starts while the call
\* is outstanding, before any entry is appended.
CallToolNotAwaited ==
    /\ pc = "executing"
    /\ dispatches' = dispatches + 1
    /\ pc' = "planning"
    /\ UNCHANGED << conversation_history, response, printed, turns, executed_tools,
                    current_query, tool_request, tool_result, planning_prompt,
                    synthesis_prompt, planning_response, returned_by, planned,
                    raised, nsynth, ndirect, history_before, user_input, aside_vars >>

\* A dispatch that also logs the tool result in the conversation history.
CallToolLogsHistory ==
    /\ pc = "executing"
    /\ \E outcome \in ToolOutcomes(tool_request.tool_name) :
         /\ executed_tools' =
                ExecutedAppend(executed_tools, tool_request, ToolResult(outcome))
         /\ raised' = Append(raised, outcome.raises)
         /\ tool_result' = outcome
    /\ dispatches' = dispatches + 1
    /\ conversation_history' =
           Append(conversation_history, Message("tool", tool_request.tool_name))
    /\ pc' = "planning"
    /\ UNCHANGED << response, printed, turns, current_query,
                    tool_request, planning_prompt, synthesis_prompt, planning_response, returned_by,
                    planned, nsynth, ndirect, history_before, user_input, aside_vars >>

\* call_tool returns or raises; either way one entry is appended and the next
\* planning round starts.
CallTool ==
    /\ pc = "executing"
    /\ \E outcome \in ToolOutcomes(tool_request.tool_name) :
         /\ executed_tools' =
                ExecutedAppend(executed_tools, tool_request, ToolResult(outcome))
         /\ raised' = Append(raised, outcome.raises)
         /\ tool_result' = outcome
    /\ dispatches' = dispatches + 1
    /\ pc' = "planning"
    /\ UNCHANGED << conversation_history, response, printed, turns, current_query,
                    tool_request, planning_prompt, synthesis_prompt, planning_response, returned_by,
                    planned, nsynth, ndirect, history_before, user_input, aside_vars >>

\* A return of final_response that leaves the history alone.
ReturnFinalUnrecorded(final_response, by) ==
    /\ response' = final_response
    /\ returned_by' = by
    /\ pc' = "returned"
    /\ planning_response' = NoPlanning
    /\ UNCHANGED << conversation_history, printed, turns, dispatches, executed_tools,
                    current_query, tool_request, tool_result, planning_prompt, synthesis_prompt, planned,
                    raised, nsynth, ndirect, history_before, user_input, aside_vars >>

\* A return that starts the history over with the reply.
ReturnFinalForgetting(final_response, by) ==
    /\ conversation_history' = << Message("assistant", final_response) >>
    /\ response' = final_response
    /\ returned_by' = by
    /\ pc' = "returned"
    /\ planning_response' = NoPlanning
    /\ UNCHANGED << printed, turns, dispatches, executed_tools, current_query,
                    tool_request, tool_result, planning_prompt, synthesis_prompt, planned, raised,
                    nsynth, ndirect, history_before, user_input, aside_vars >>

\* A return that appends the reply to the history twice.
ReturnFinalTwice(final_response, by) ==
    /\ conversation_history' =
           Append(Append(conversation_history, Message("assistant", final_response)),
                  Message("assistant", final_response))
    /\ response' = final_response
    /\ returned_by' = by
    /\ pc' = "returned"
    /\ planning_response' = NoPlanning
    /\ UNCHANGED << printed, turns, dispatches, executed_tools, current_query,
                    tool_request, tool_result, planning_prompt, synthesis_prompt, planned, raised,
                    nsynth, ndirect, history_before, user_input, aside_vars >>

\* The turn returns final_response after appending it to the history.
ReturnFinal(final_response, by) ==
    /\ conversation_history' =
           Append(conversation_history, Message("assistant", final_response))
    /\ response' = final_response
    /\ returned_by' = by
    /\ pc' = "returned"
    /\ planning_response' = NoPlanning
    /\ UNCHANGED << printed, turns, dispatches, executed_tools, current_query,
                    tool_request, tool_result, planning_prompt, synthesis_prompt, planned, raised,
                    nsynth, ndirect, history_before, user_input, aside_vars >>

\* _generate_comprehensive_response: the model answers.
SynthesizeReply ==
    /\ pc = "synthesizing"
    /\ \E c \in AnswerContents : ReturnFinal(PyStrip(c), "synthesis")

\* _generate_comprehensive_response: ollama.chat raises, the results are joined.
SynthesizeFallback ==
    /\ pc = "synthesizing"
    /\ ReturnFinal(SynthesisFallback(executed_tools), "synthesis_fallback")

\* _generate_direct_response: the model answers.
DirectReply ==
    /\ pc = "direct_response"
    /\ \E c \in AnswerContents : ReturnFinal(PyStrip(c), "direct")

\* A direct response that lets the exception of ollama.chat out: start_chat prints
\* it and reads the next line, and the turn has returned nothing.
DirectFailsRaising ==
    /\ pc = "direct_response"
    /\ returned_by' = "exception"
    /\ pc' = "input"
    /\ planning_response' = NoPlanning
    /\ UNCHANGED << conversation_history, response, printed, turns, dispatches,
                    executed_tools, current_query, tool_request, tool_result,
                    planning_prompt, synthesis_prompt, planned, raised, nsynth, ndirect, history_before,
                    user_input, aside_vars >>

\* _generate_direct_response: ollama.chat raises, the error string is returned.
DirectFails ==
    /\ pc = "direct_response"
    /\ response' = DirectError(ChatError)
    /\ returned_by' = "direct_error"
    /\ pc' = "returned"
    /\ planning_response' = NoPlanning
    /\ UNCHANGED << conversation_history, printed, turns, dispatches, executed_tools,
                    current_query, tool_request, tool_result, planning_prompt, synthesis_prompt, planned,
                    raised, nsynth, ndirect, history_before, user_input, aside_vars >>

\* A loop that gives up after a turn that returned an error string.
DisplayStopsOnError ==
    /\ pc = "returned"
    /\ printed' = StripThink(response)
    /\ pc' = IF returned_by \in { "query_error", "direct_error" }
             THEN "stopped" ELSE "input"
    /\ executed_tools' = << >>
    /\ current_query' = << >>
    /\ tool_request' = NoRequest
    /\ tool_result' = NoCall
    /\ planning_prompt' = NoPrompt
    /\ synthesis_prompt' = NoSynthesisPrompt
    /\ planning_response' = NoPlanning
    /\ returned_by' = "none"
    /\ planned' = << >>
    /\ raised' = << >>
    /\ nsynth' = 0
    /\ ndirect' = 0
    /\ history_before' = << >>
    /\ UNCHANGED << conversation_history, response, turns, dispatches, user_input, aside_vars >>

\* start_chat strips the thinking span from the returned value, prints it and
\* reads the next line; the locals of the finished turn are gone.
Display ==
    /\ pc = "returned"
    /\ printed' = StripThink(response)
    /\ pc' = "input"
    /\ executed_tools' = << >>
    /\ current_query' = << >>
    /\ tool_request' = NoRequest
    /\ tool_result' = NoCall
    /\ planning_prompt' = NoPrompt
    /\ synthesis_prompt' = NoSynthesisPrompt
    /\ planning_response' = NoPlanning
    /\ returned_by' = "none"
    /\ planned' = << >>
    /\ raised' = << >>
    /\ nsynth' = 0
    /\ ndirect' = 0
    /\ history_before' = << >>
    /\ UNCHANGED << conversation_history, response, turns, dispatches, user_input, aside_vars >>

Next ==
    \/ Quit
    \/ KeyboardInterrupt
    \/ LoopCatches
    \/ Clear
    \/ ListTools
    \/ EmptyInput
    \/ ProcessQuery
    \/ PlanChatRaises
    \/ PlanTool
    \/ PlanNoTool
    \/ PlanParseRaises
    \/ CallTool
    \/ SynthesizeReply
    \/ SynthesizeFallback
    \/ DirectReply
    \/ DirectFails
    \/ Display

Spec == Init /\ [][Next]_vars

\* ------------------------------------------------- calls that never return
\* In Spec a call that never returns is a behavior that stutters from the state
\* in which the call was made.  For progress the two cases are made explicit: no
\* timeout is passed to call_tool or to ollama.chat and none surrounds them, so
\* nothing leads out of the state in which the turn waits.

\* await mcp_client.call_tool(...) never completes.
ToolCallNeverReturns ==
    /\ pc = "executing"
    /\ pc' = "blocked"
    /\ UNCHANGED << session_vars, turn_vars, user_input, aside_vars >>

\* ollama.chat(...) never returns: in a planning round, in synthesis or in the
\* direct response.
ChatNeverReturns ==
    /\ pc \in { "planning", "synthesizing", "direct_response" }
    /\ pc' = "blocked"
    /\ UNCHANGED << session_vars, turn_vars, user_input, aside_vars >>

\* The steps the running turn takes whenever the call it waits for comes back.
TurnStep ==
    \/ PlanChatRaises
    \/ PlanTool
    \/ PlanNoTool
    \/ PlanParseRaises
    \/ CallTool
    \/ SynthesizeReply
    \/ SynthesizeFallback
    \/ DirectReply
    \/ DirectFails
    \/ Display

LiveNext ==
    \/ Next
    \/ ToolCallNeverReturns
    \/ ChatNeverReturns

\* The interpreter runs the turn on as long as it has a step to take.
LiveSpec == Init /\ [][LiveNext]_vars /\ WF_vars(TurnStep)

\* --------------------------------------- the stripping as a function of its text

Pieces ==
    { OpenTag, CloseTag, << "a" >>, << "<", "t", "h", "i" >>, << "n", "k", ">" >> }

\* The texts built from at most n pieces.
RECURSIVE Built(_)
Built(n) ==
    IF n = 0 THEN { << >> }
    ELSE Built(n - 1) \cup { t \o p : t \in Built(n - 1), p \in Pieces }

StripInit ==
    /\ ChatInit
    /\ PlanIdle
    /\ SearchIdle
    /\ SectorIdle
    /\ TechIdle
    /\ content \in Built(MaxPieces)
    /\ stripped = << >>
    /\ restripped = << >>
    /\ strip_pc = "ready"

\* Apply the stripping to the content.
StripApply ==
    /\ strip_pc = "ready"
    /\ stripped' = StripThink(content)
    /\ strip_pc' = "done"
    /\ UNCHANGED << content, restripped, chat_vars, plan_vars, search_vars,
                    sector_vars, tech_vars >>

\* Apply the stripping to its own result.
StripAgain ==
    /\ strip_pc = "done"
    /\ restripped' = StripThink(stripped)
    /\ strip_pc' = "twice"
    /\ UNCHANGED << content, stripped, chat_vars, plan_vars, search_vars,
                    sector_vars, tech_vars >>

StripNext ==
    \/ StripApply
    \/ StripAgain

StripSpec == StripInit /\ [][StripNext]_vars

\* ------------------------ the planner's reading of a reply, as a function of it

PlanPieces ==
    { << d >> : d \in DOMAIN JsonDocs } \cup { ThinkSpan, << " " >>, << "I" >> }

\* The replies built from at most n pieces.
RECURSIVE PlanReplies(_)
PlanReplies(n) ==
    IF n = 0 THEN { << >> }
    ELSE PlanReplies(n - 1) \cup { t \o q : t \in PlanReplies(n - 1), q \in PlanPieces }

\* Thinking texts: they hold no marker.
Thinkings == { << >>, << "internal" >>, << "step", " ", "one" >> }

PlanInit ==
    /\ ChatInit
    /\ StripIdle
    /\ SearchIdle
    /\ SectorIdle
    /\ TechIdle
    /\ reply_text \in PlanReplies(MaxPlanPieces)
    /\ thinking \in Thinkings
    /\ plan_bare = NoPlan
    /\ plan_wrapped = NoPlan
    /\ plan_pc = "ready"

\* The planner reads the reply J, and the reply <think>X</think>J.
PlanApply ==
    /\ plan_pc = "ready"
    /\ plan_bare' = ParsePlan(PlanningText(reply_text))
    /\ plan_wrapped' =
           ParsePlan(PlanningText(OpenTag \o thinking \o CloseTag \o reply_text))
    /\ plan_pc' = "done"
    /\ UNCHANGED << reply_text, thinking, chat_vars, strip_vars, search_vars,
                    sector_vars, tech_vars >>

PlanNext == PlanApply

PlanSpec == PlanInit /\ [][PlanNext]_vars

\* ------------------------------------------------ search_tickers (find_ticker.py)

\* The values base_sleep is called with (its default is 1.0).
BaseSleeps == { 1, 2 }

\* The status codes the search endpoint answers with.
StatusCodes == { 200, 204, 404, 429, 500 }

\* No response came back: requests.get raised.
NoResponse == 0

\* resp.raise_for_status() raises HTTPError for the codes 400..599 and returns
\* for every other code.
RaisesForStatus(status_code) == status_code >= 400 /\ status_code < 600

\* A loop that goes round once more than max_retries allows.
MoreAttemptsInclusive(done, retries) == done <= retries

\* for attempt in range(1, max_retries + 1): another iteration follows when fewer
\* than max_retries are done.
MoreAttempts(done, retries) == done < retries

\* base_sleep * (2 ** (attempt - 1))
SleepTime(base, k) == base * (2 ^ (k - 1))

SearchInit ==
    /\ ChatInit
    /\ StripIdle
    /\ PlanIdle
    /\ SectorIdle
    /\ TechIdle
    /\ max_retries \in 0..MaxRetries
    /\ base_sleep \in BaseSleeps
    /\ attempt = 0
    /\ statuses = << >>
    /\ sleeps = << >>
    /\ search_pc = "loop"
    /\ search_outcome = "none"

\* What no step of search_tickers changes.
SearchFrame == UNCHANGED << max_retries, base_sleep, chat_vars, strip_vars, plan_vars,
                            sector_vars, tech_vars >>

\* An iteration whose response has status 200: the quotes are returned.
SearchOk ==
    /\ search_pc = "loop"
    /\ MoreAttempts(attempt, max_retries)
    /\ attempt' = attempt + 1
    /\ statuses' = Append(statuses, 200)
    /\ sleeps' = Append(sleeps, 0)
    /\ search_pc' = "returned"
    /\ search_outcome' = "quotes"
    /\ SearchFrame

\* An iteration whose response has status 429: sleep, then go round the loop.
SearchRateLimited ==
    /\ search_pc = "loop"
    /\ MoreAttempts(attempt, max_retries)
    /\ attempt' = attempt + 1
    /\ statuses' = Append(statuses, 429)
    /\ sleeps' = Append(sleeps, SleepTime(base_sleep, attempt'))
    /\ UNCHANGED << search_pc, search_outcome >>
    /\ SearchFrame

\* An iteration whose response has any other status: raise_for_status() is called;
\* when it returns the loop goes round without a sleep.
SearchOtherStatus ==
    /\ search_pc = "loop"
    /\ MoreAttempts(attempt, max_retries)
    /\ attempt' = attempt + 1
    /\ \E status_code \in StatusCodes \ { 200, 429 } :
         /\ statuses' = Append(statuses, status_code)
         /\ IF RaisesForStatus(status_code)
            THEN search_pc' = "raised" /\ search_outcome' = "HTTPError"
            ELSE UNCHANGED << search_pc, search_outcome >>
    /\ sleeps' = Append(sleeps, 0)
    /\ SearchFrame

\* requests.get raises (no connection): the exception leaves search_tickers.
SearchRequestFails ==
    /\ search_pc = "loop"
    /\ MoreAttempts(attempt, max_retries)
    /\ attempt' = attempt + 1
    /\ statuses' = Append(statuses, NoResponse)
    /\ sleeps' = Append(sleeps, 0)
    /\ search_pc' = "raised"
    /\ search_outcome' = "RequestException"
    /\ SearchFrame

\* The loop is over: raise RuntimeError("Failed after ... retries due to rate limits.")
SearchExhausted ==
    /\ search_pc = "loop"
    /\ ~MoreAttempts(attempt, max_retries)
    /\ search_pc' = "raised"
    /\ search_outcome' = "RuntimeError"
    /\ UNCHANGED << attempt, statuses, sleeps >>
    /\ SearchFrame

SearchNext ==
    \/ SearchOk
    \/ SearchRateLimited
    \/ SearchOtherStatus
    \/ SearchRequestFails
    \/ SearchExhausted

\* Every request comes back and every sleep ends, so the function takes its next
\* step as long as it has one.
SearchSpec == SearchInit /\ [][SearchNext]_vars /\ WF_vars(SearchNext)

\* ------------------------------------- get_sector_metrics (sector_details.py)

\* Sector name -> representative ETF.
SECTOR_ETF_MAP ==
    [ n \in { "Information Technology", "Health Care", "Financials",
              "Consumer Discretionary", "Communication Services", "Industrials",
              "Consumer Staples", "Utilities", "Energy", "Real Estate",
              "Materials" } |->
        CASE n = "Information Technology" -> "XLK"
          [] n = "Health Care"            -> "XLV"
          [] n = "Financials"             -> "XLF"
          [] n = "Consumer Discretionary" -> "XLY"
          [] n = "Communication Services" -> "XLC"
          [] n = "Industrials"            -> "XLI"
          [] n = "Consumer Staples"       -> "XLP"
          [] n = "Utilities"              -> "XLU"
          [] n = "Energy"                 -> "XLE"
          [] n = "Real Estate"            -> "XLRE"
          [] n = "Materials"              -> "XLB" ]

\* Names a planner may send that are no key of the map.
OtherSectorNames ==
    { "energy", "Technology", "Tech", "Information Technology ", "Real-Estate", "" }

\* The sector_name arguments the tool is called with.
SectorNames == DOMAIN SECTOR_ETF_MAP \cup OtherSectorNames

\* The time_period arguments the tool is called with.
TimePeriods == { "1mo", "3mo", "6mo", "1y", "5y" }

\* A lookup that falls back on the technology ETF for a name it does not know.
SectorEtfDefault(name) ==
    IF name \in DOMAIN SECTOR_ETF_MAP THEN SECTOR_ETF_MAP[name] ELSE "XLK"

\* SECTOR_ETF_MAP.get(sector_name)
SectorEtf(name) ==
    IF name \in DOMAIN SECTOR_ETF_MAP THEN SECTOR_ETF_MAP[name] ELSE NoValue

\* The request of the planner for the sector tool.
SectorRequest(name, time_period) ==
    [tool_name |-> "get_stock_sector_metrics", parameters |-> << name, time_period >>]

\* The planner has asked for get_stock_sector_metrics in the first round of a turn
\* and the executor is about to dispatch it.
SectorInit ==
    /\ sector_name \in SectorNames
    /\ period \in TimePeriods
    /\ provider_calls = 0
    /\ sector_outcome = NoCall
    /\ selection_criteria = << >>
    /\ system_msg = << >>
    /\ sector_pc = "called"
    /\ \E q \in Queries :
         /\ conversation_history = << Message("user", q) >>
         /\ user_input = q
         /\ current_query = q
         /\ planning_prompt = PlanningPrompt(conversation_history, q, << >>)
    /\ response = << >>
    /\ printed = << >>
    /\ turns = 1
    /\ dispatches = 0
    /\ pc = "executing"
    /\ executed_tools = << >>
    /\ tool_request = SectorRequest(sector_name, period)
    /\ tool_result = NoCall
    /\ synthesis_prompt = NoSynthesisPrompt
    /\ planning_response = [status |-> "replied", content |-> << "[sector request]" >>]
    /\ returned_by = "none"
    /\ planned = << JObject({"tool", "params"}, tool_request.tool_name,
                            tool_request.parameters) >>
    /\ raised = << >>
    /\ nsynth = 0
    /\ ndirect = 0
    /\ history_before = << >>
    /\ StripIdle
    /\ PlanIdle
    /\ SearchIdle
    /\ TechIdle

\* What no step inside the tool changes.
SectorFrame == UNCHANGED << sector_name, period, chat_vars, strip_vars, plan_vars,
                            search_vars, tech_vars >>

\* The selection criteria get_decision_criteria writes down, by their headings.
decision_criteria ==
    << "Universe", "Liquidity & Size", "Valuation", "Profitability",
       "Growth & Quality", "Composite Scoring", "Final Review" >>

\* get_decision_criteria ends with a bare `return`: its value is None, whatever
\* decision_criteria holds.
get_decision_criteria == [is_none |-> TRUE, text |-> << >>]

\* Python: str(value), for None and for a text
PyStr(value) == IF value.is_none THEN << "None" >> ELSE value.text

\* What mcp._read_resource(uri) hands to its caller, which does not await it: the
\* coroutine object itself, or (were the call carried out) what the resource
\* function returned.
ReadResource(returned) ==
    { << "<coroutine object FastMCP._read_resource>" >>, PyStr(returned) }

\* The system message: the analyst's instructions, then the selection criteria.
SystemMsg(criteria) ==
    << "You are a senior financial analyst", "**SELECTION CRITERIA:**" >> \o criteria

\* etf = SECTOR_ETF_MAP.get(sector_name); if not etf: raise ValueError(...)
SectorValidate ==
    /\ sector_pc = "called"
    /\ UNCHANGED << selection_criteria, system_msg >>
    /\ IF SectorEtf(sector_name) = NoValue
       THEN /\ sector_outcome' = Raises(<< "Unknown sector: ", sector_name >>)
            /\ sector_pc' = "failed"
       ELSE /\ sector_pc' = "fetching"
            /\ UNCHANGED sector_outcome
    /\ UNCHANGED provider_calls
    /\ SectorFrame

\* yf.Ticker(etf).history(period=period): the provider fails, has no data for the
\* period (RuntimeError), or returns the closing prices.
SectorFetch ==
    /\ sector_pc = "fetching"
    /\ UNCHANGED << selection_criteria, system_msg >>
    /\ provider_calls' = provider_calls + 1
    /\ \/ /\ sector_outcome' = Raises(<< "provider failure" >>)
          /\ sector_pc' = "failed"
       \/ /\ sector_outcome' =
                 Raises(<< "No price data for ", SectorEtf(sector_name), period >>)
          /\ sector_pc' = "failed"
       \/ /\ sector_pc' = "fetched"
          /\ UNCHANGED sector_outcome
    /\ SectorFrame

\* growth_pct, tkr.info and the SectorMetrics object.
SectorMetricsBuilt ==
    /\ sector_pc = "fetched"
    /\ UNCHANGED << selection_criteria, system_msg >>
    /\ provider_calls' = provider_calls + 1
    /\ \/ /\ sector_outcome' = Raises(<< "provider failure" >>)
          /\ sector_pc' = "failed"
       \/ /\ sector_pc' = "summarizing"
          /\ UNCHANGED sector_outcome
    /\ SectorFrame

\* The tool dumps the metrics as JSON and has them summarized: summarize_stock_data
\* reads the criteria resource, builds the system message and asks the model; the
\* summary is the one content part of the tool's result, unless the model fails.
SectorSummarize ==
    /\ sector_pc = "summarizing"
    /\ selection_criteria' \in ReadResource(get_decision_criteria)
    /\ system_msg' = SystemMsg(selection_criteria')
    /\ \/ sector_outcome' = Returns(<< << "summary of ", SectorEtf(sector_name), period >> >>)
       \/ sector_outcome' = Raises(<< "LLM error" >>)
    /\ sector_pc' = IF sector_outcome'.raises THEN "failed" ELSE "done"
    /\ UNCHANGED provider_calls
    /\ SectorFrame

\* call_tool comes back to the executor, returning or raising: one entry is
\* appended and the next planning round starts.
SectorRecord ==
    /\ sector_pc \in { "done", "failed" }
    /\ pc = "executing"
    /\ executed_tools' =
           ExecutedAppend(executed_tools, tool_request, ToolResult(sector_outcome))
    /\ raised' = Append(raised, sector_outcome.raises)
    /\ tool_result' = sector_outcome
    /\ dispatches' = dispatches + 1
    /\ pc' = "planning"
    /\ sector_pc' = "recorded"
    /\ UNCHANGED << conversation_history, user_input, response, printed, turns,
                    current_query, tool_request, planning_prompt, synthesis_prompt,
                    planning_response, returned_by, planned, nsynth, ndirect,
                    history_before, sector_name, period, provider_calls,
                    sector_outcome, selection_criteria, system_msg, strip_vars,
                    plan_vars, search_vars, tech_vars >>

SectorNext ==
    \/ SectorValidate
    \/ SectorFetch
    \/ SectorMetricsBuilt
    \/ SectorSummarize
    \/ SectorRecord

SectorSpec == SectorInit /\ [][SectorNext]_vars

\* --------------------------------- TechnicalAnalysis (technical_analysis.py)

\* The rolling window: windows = {'2-weeks': 10}
Window == 10

\* The longest price history looked at.
MaxRows == 11

\* The closing prices of the histories.
Closes == { 1, 2 }

\* The price histories: none, every sequence of closes up to MaxRows rows, and
\* the steadily rising ones.
Histories ==
    UNION { [1..n -> Closes] : n \in 0..MaxRows }
      \cup { [i \in 1..n |-> i] : n \in 1..MaxRows }

\* rolling(window=w, center=True): the window of row i ends (w - 1) // 2 rows
\* after it and holds w rows.
WindowRows(i) ==
    (i + ((Window - 1) \div 2) - Window + 1)..(i + ((Window - 1) \div 2))

\* The rolling value of row i is NaN unless its whole window lies in the data.
RollValid(close, i) ==
    \A j \in WindowRows(i) : j \in 1..Len(close)

\* close == roll_max; a comparison with NaN is False.
IsResistance(close, i) ==
    /\ RollValid(close, i)
    /\ \A j \in WindowRows(i) : close[j] <= close[i]

\* close == roll_min
IsSupport(close, i) ==
    /\ RollValid(close, i)
    /\ \A j \in WindowRows(i) : close[j] >= close[i]

ResistanceRows(close) == { i \in 1..Len(close) : IsResistance(close, i) }

SupportRows(close) == { i \in 1..Len(close) : IsSupport(close, i) }

\* get_score_time_weighted returns at once when either frame is empty, and adds
\* the column 'Score' to both otherwise.
ScoreAdded(res, sup) == ~(res = {} \/ sup = {})

SetMin(S) == CHOOSE x \in S : \A y \in S : x <= y

SetMax(S) == CHOOSE x \in S : \A y \in S : y <= x

\* Score > 0.7, the score of a row being its place between the first and the last
\* date of the frame, or 0.0 when the frame has one date.
ScoreAbove(rows, i) ==
    /\ SetMin(rows) # SetMax(rows)
    /\ 10 * (i - SetMin(rows)) > 7 * (SetMax(rows) - SetMin(rows))

\* to_json(orient='records') of the rows left by the filter, None when none is left.
LevelsJson(close, rows) ==
    LET kept == { i \in rows : ScoreAbove(rows, i) }
    IN  IF kept = {} THEN NoLevels
        ELSE [is_none |-> FALSE, points |-> { << i, close[i] >> : i \in kept }]

\* sort_values('Date')
RECURSIVE SortedRows(_)
SortedRows(rows) ==
    IF rows = {} THEN << >>
    ELSE << SetMin(rows) >> \o SortedRows(rows \ { SetMin(rows) })

\* tail(N)
LastN(seq, n) ==
    IF Len(seq) <= n THEN seq ELSE SubSeq(seq, Len(seq) - n + 1, Len(seq))

RECURSIVE Sum(_)
Sum(seq) == IF seq = << >> THEN 0 ELSE Head(seq) + Sum(Tail(seq))

\* The slope of the least-squares line through (x[k], y[k]) is SlopeNum / SlopeDen.
SlopeNum(x, y) ==
    Len(x) * Sum([k \in 1..Len(x) |-> x[k] * y[k]]) - Sum(x) * Sum(y)

SlopeDen(x) ==
    Len(x) * Sum([k \in 1..Len(x) |-> x[k] * x[k]]) - Sum(x) * Sum(x)

\* One row of analyze_extrema_trends: the last N levels of a type, and the
\* direction of the line fitted through them.
TrendRow(etype, close, rows) ==
    LET lastN  == LastN(SortedRows(rows), 5)
        levels == [k \in 1..Len(lastN) |-> close[lastN[k]]]
        x      == [k \in 1..Len(lastN) |-> k - 1]
        m      == SlopeNum(x, levels)
    IN  [Type  |-> etype,
         Count |-> Len(levels),
         Trend |-> IF Len(levels) < 2 THEN "insufficient data"
                   ELSE IF m > 0 THEN "uptrend"
                   ELSE IF m < 0 THEN "downtrend"
                   ELSE "sideways",
         Duration |-> 5,
         Levels   |-> levels]

\* detect_triangle_pattern: the slopes of the support and resistance points over
\* the days, against tol = 1e-3; a slope of fewer than two points is NaN and
\* every comparison with it is False.
TrianglePattern(close, res, sup) ==
    LET xs(rows)  == SortedRows(rows)
        ys(rows)  == [k \in 1..Cardinality(rows) |-> close[xs(rows)[k]]]
        nan(rows) == Cardinality(rows) < 2
        num(rows) == SlopeNum(xs(rows), ys(rows))
        den(rows) == SlopeDen(xs(rows))
        above(rows) == ~nan(rows) /\ 1000 * num(rows) > den(rows)
        below(rows) == ~nan(rows) /\ 1000 * num(rows) < 0 - den(rows)
        flat(rows)  == ~nan(rows) /\ ~above(rows) /\ ~below(rows)
    IN  IF above(sup) /\ flat(res) THEN "ascending_triangle"
        ELSE IF below(res) /\ flat(sup) THEN "descending_triangle"
        ELSE "none"

TechFrame == UNCHANGED << data, chat_vars, strip_vars, plan_vars, search_vars,
                          sector_vars >>

\* TechnicalAnalysis(ticker) has fetched the price history.
TechInit ==
    /\ ChatInit
    /\ StripIdle
    /\ PlanIdle
    /\ SearchIdle
    /\ SectorIdle
    /\ data \in Histories
    /\ res_rows = {}
    /\ sup_rows = {}
    /\ score_added = FALSE
    /\ tech_result = NoTechResult
    /\ tech_pc = "called"

\* if self.data.empty: the result for no data is returned.
TechNoData ==
    /\ tech_pc = "called"
    /\ data = << >>
    /\ tech_result' = [NoTechResult EXCEPT !.triangle_pattern = "no_data"]
    /\ tech_pc' = "returned"
    /\ UNCHANGED << res_rows, sup_rows, score_added >>
    /\ TechFrame

\* get_resistance_and_support_levels: the rows whose close is the maximum or the
\* minimum of their window, then get_score_time_weighted.
TechLevels ==
    /\ tech_pc = "called"
    /\ data # << >>
    /\ res_rows' = ResistanceRows(data)
    /\ sup_rows' = SupportRows(data)
    /\ score_added' = ScoreAdded(res_rows', sup_rows')
    /\ tech_pc' = "levels"
    /\ UNCHANGED tech_result
    /\ TechFrame

\* res_df['Score'] on a frame without that column: KeyError.
TechScoreMissing ==
    /\ tech_pc = "levels"
    /\ ~score_added
    /\ tech_result' = [NoTechResult EXCEPT !.raises = TRUE, !.error = "KeyError: 'Score'"]
    /\ tech_pc' = "raised"
    /\ UNCHANGED << res_rows, sup_rows, score_added >>
    /\ TechFrame

\* The filter on the score, the trends, the triangle pattern and the result.
TechShape ==
    /\ tech_pc = "levels"
    /\ score_added
    /\ tech_result' =
           [raises             |-> FALSE,
            error              |-> "none",
            Ressistance_levels |-> LevelsJson(data, res_rows),
            Support_levels     |-> LevelsJson(data, sup_rows),
            trend              |-> << TrendRow("Support", data, sup_rows),
                                      TrendRow("Resistance", data, res_rows) >>,
            trend_duration     |-> TrendRow("Support", data, sup_rows).Duration,
            triangle_pattern   |-> TrianglePattern(data, res_rows, sup_rows)]
    /\ tech_pc' = "returned"
    /\ UNCHANGED << res_rows, sup_rows, score_added >>
    /\ TechFrame

TechNext ==
    \/ TechNoData
    \/ TechLevels
    \/ TechScoreMissing
    \/ TechShape

TechSpec == TechInit /\ [][TechNext]_vars

\* ------------------------------------------------------------------ claims

\* The last planning round of the turn is over: the turn is in synthesis or in the
\* direct response, or it has returned.
TurnEnding == pc \in { "synthesizing", "direct_response", "returned" }

\* What kind of reply the model gave to the last planning prompt.
ReplyClass(reply) ==
    IF DocSymbols(reply) = {} THEN "malformed"
    ELSE LET d == JsonDocs[CHOOSE x \in DocSymbols(reply) : TRUE]
         IN  IF d.kind # "array" THEN "non_array"
             ELSE IF d.items = << >> THEN "empty_array"
             ELSE IF d.items[1].kind # "object" THEN "bad_element"
             ELSE "request"

PlannerReplied(class) ==
    /\ planning_response.status = "replied"
    /\ ReplyClass(planning_response.content) = class

WellFormedRequest(req) == req.kind = "object" /\ req.keys = { "tool", "params" }

\* No limit on the rounds of a turn is configured in the code; the candidate checked
\* is the largest one the explored dispatches can exceed.
RoundLimit == MaxDispatches - 1

\* C1: a turn in which the planner asks for a tool in every round stops dispatching
\* after a configured maximum number of rounds, so its trace never grows beyond
\* that maximum.
C1_TraceWithinRoundLimit ==
    Len(executed_tools) <= RoundLimit

\* C2: when the planner made N well-formed requests and then returned the empty
\* array, the trace has exactly N entries and the i-th entry carries the tool name
\* and the parameters of the i-th request.
C2_TraceMatchesRequests ==
    ( /\ TurnEnding
      /\ PlannerReplied("empty_array")
      /\ \A i \in 1..Len(planned) : WellFormedRequest(planned[i]) )
    => /\ Len(executed_tools) = Len(planned)
       /\ \A i \in 1..Len(planned) :
            /\ executed_tools[i].tool_name = planned[i].tool
            /\ executed_tools[i].parameters = planned[i].params

C2_Witness ==
    /\ pc = "synthesizing"
    /\ PlannerReplied("empty_array")
    /\ Len(planned) = 2
    /\ WellFormedRequest(planned[1])
    /\ WellFormedRequest(planned[2])
    /\ planned[1] # planned[2]
    /\ Len(executed_tools) = 2

\* C3: a dispatch that raises appends exactly one entry, whose result begins with
\* "Error:", and the next planning round follows; after the planning rounds the
\* trace has one entry per round that asked for a tool.
C3_DispatchErrorRecorded ==
    /\ [] ( /\ Len(raised) = Len(executed_tools)
            /\ \A k \in 1..Len(raised) :
                 raised[k] => Head(executed_tools[k].result) = "Error: "
            /\ pc # "executing" => Len(executed_tools) = Len(planned) )
    /\ [][ pc = "executing"
           => /\ pc' = "planning"
              /\ Len(executed_tools') = Len(executed_tools) + 1
              /\ SubSeq(executed_tools', 1, Len(executed_tools)) = executed_tools
              /\ executed_tools'[Len(executed_tools')].tool_name
                     = tool_request.tool_name ]_vars

C3_Witness ==
    /\ pc = "planning"
    /\ Len(raised) = 2
    /\ raised[1]
    /\ Head(executed_tools[1].result) = "Error: "
    /\ Len(executed_tools) = 2

\* C4: when the planner returns the empty array the turn ends in exactly one
\* terminal state: one call of synthesis and none of the direct response if the
\* trace is non-empty, one call of the direct response and none of synthesis if
\* the trace is empty.
C4_EmptyArrayEndsTurn ==
    /\ ( TurnEnding /\ PlannerReplied("empty_array") )
       => IF executed_tools # << >>
          THEN pc = "synthesizing" /\ nsynth = 1 /\ ndirect = 0
          ELSE pc = "direct_response" /\ ndirect = 1 /\ nsynth = 0
    /\ ( pc = "returned" /\ returned_by \in { "synthesis", "synthesis_fallback" } )
       => nsynth = 1 /\ ndirect = 0 /\ executed_tools # << >>
    /\ ( pc = "returned" /\ returned_by \in { "direct", "direct_error" } )
       => ndirect = 1 /\ nsynth = 0 /\ executed_tools = << >>

C4_Witness ==
    /\ pc = "synthesizing"
    /\ PlannerReplied("empty_array")
    /\ executed_tools # << >>
    /\ nsynth = 1
    /\ ndirect = 0

\* C5: a planner reply that is malformed JSON, JSON that is no array, or an array
\* whose first element is no object ends the turn without a tool call in that
\* round: in synthesis if the trace is non-empty, in the direct response if it
\* is empty.
C5_BadPlanFallsBack ==
    ( /\ TurnEnding
      /\ \/ PlannerReplied("malformed")
         \/ PlannerReplied("non_array")
         \/ PlannerReplied("bad_element") )
    => /\ Len(executed_tools) = Len(planned)
       /\ IF executed_tools # << >>
          THEN nsynth = 1 /\ ndirect = 0
          ELSE ndirect = 1 /\ nsynth = 0

C7_TurnAppendsUserAndAssistant ==
    pc = "returned"
    => conversation_history =
           history_before \o << Message("user", current_query),
                                Message("assistant", response) >>

\* C7 as amended: every completed turn has appended one user entry holding the
\* query; one assistant entry holding the returned reply follows it when the turn
\* returned from synthesis or from a direct response the model gave, and nothing
\* follows it when the turn returned an error string.
C7_TurnAppendsUserAndReplyUnlessError ==
    pc = "returned"
    => conversation_history =
           history_before
             \o << Message("user", current_query) >>
             \o ( IF returned_by \in { "synthesis", "synthesis_fallback", "direct" }
                  THEN << Message("assistant", response) >>
                  ELSE << >> )

C7_Witness ==
    /\ pc = "returned"
    /\ returned_by = "synthesis"
    /\ history_before # << >>
    /\ conversation_history[Len(conversation_history)] = Message("assistant", response)

\* The content holds an opening marker and a closing marker after it.
HasSpan(text) ==
    /\ Contains(text, OpenTag)
    /\ \E j \in (Find(text, OpenTag) + Len(OpenTag))..(Len(text) - Len(CloseTag)) :
         OccursAt(text, CloseTag, j)

\* The text before the first opening marker, then the text after the first closing
\* marker that follows it.
SpanRemoved(text) ==
    LET start == Find(text, OpenTag)
        close == CHOOSE j \in (start + Len(OpenTag))..(Len(text) - Len(CloseTag)) :
                    /\ OccursAt(text, CloseTag, j)
                    /\ \A k \in (start + Len(OpenTag))..(j - 1) :
                         ~OccursAt(text, CloseTag, k)
    IN  Slice(text, 0, start) \o Slice(text, close + Len(CloseTag), Len(text))

\* C8: for a text that holds <think> and a later </think>, the stripping returns
\* the text before the first <think> followed by the text after the first
\* </think> that follows it, also when another </think> precedes the <think>.
C8_StripRemovesFirstSpan ==
    ( strip_pc = "done" /\ HasSpan(content) ) => stripped = SpanRemoved(content)

\* C9: the stripping returns the text unchanged when <think> is absent or
\* </think> is absent.
C9_StripKeepsTextWithoutBothMarkers ==
    ( /\ strip_pc = "done"
      /\ ~Contains(content, OpenTag) \/ ~Contains(content, CloseTag) )
    => stripped = content

C9_Witness ==
    /\ strip_pc = "done"
    /\ Contains(content, OpenTag)
    /\ ~Contains(content, CloseTag)
    /\ Len(content) > Len(OpenTag)
    /\ stripped = content

\* C10: the stripping returns the text unchanged when both markers occur but no
\* </think> follows the first <think>; the result is never longer than the text.
C10_StripKeepsTextWhenCloseOnlyBefore ==
    /\ ( /\ strip_pc = "done"
         /\ Contains(content, OpenTag)
         /\ Contains(content, CloseTag)
         /\ ~HasSpan(content) )
       => stripped = content
    /\ strip_pc = "done" => Len(stripped) <= Len(content)

\* C11: the stripping is idempotent: applied to its own result it returns that
\* result unchanged.
C11_StripIdempotent ==
    strip_pc = "twice" => restripped = stripped

\* The results of the trace occur in the text one after the other, in trace order,
\* at or after position from.
RECURSIVE ResultsInOrder(_, _, _)
ResultsInOrder(text, trace, from) ==
    IF trace = << >> THEN TRUE
    ELSE LET r == trace[1].result
         IN  \E i \in from..(Len(text) - Len(r)) :
                /\ OccursAt(text, r, i)
                /\ ResultsInOrder(text, Tail(trace), i + Len(r))

\* C12: when ollama.chat raises during synthesis, _generate_comprehensive_response
\* raises nothing and returns a text that holds the result of every trace entry,
\* in trace order.
C12_SynthesisFallbackHoldsResults ==
    /\ [] ( ( pc = "returned" /\ returned_by = "synthesis_fallback" )
            => ResultsInOrder(response, executed_tools, 0) )
    /\ [][ pc = "synthesizing"
           => /\ pc' = "returned"
              /\ returned_by' \in { "synthesis", "synthesis_fallback" }
              /\ executed_tools' = executed_tools ]_vars

C12_Witness ==
    /\ pc = "returned"
    /\ returned_by = "synthesis_fallback"
    /\ Len(executed_tools) = 2
    /\ executed_tools[1].result # executed_tools[2].result
    /\ Head(executed_tools[1].result) = "Error: "

\* The JSON document of a reply that holds one.
ReplyDoc(reply) == JsonDocs[CHOOSE d \in DocSymbols(reply) : TRUE]

\* The request that element 0 of the array in the reply stands for.
ElementZero(reply) ==
    [tool_name  |-> DictGet(ReplyDoc(reply).items[1], "tool", NoValue),
     parameters |-> DictGet(ReplyDoc(reply).items[1], "params", EmptyParams)]

\* C13: every planning round dispatches at most one tool: the request dispatched
\* is element 0 of the planner's array, also when the array has more elements;
\* the round appends one entry, the one of element 0, and no step adds more than
\* one entry to the trace.
C13_OneToolPerRound ==
    /\ [] ( ( pc = "planning" /\ PlannerReplied("request") )
            => /\ Len(executed_tools) = Len(planned)
               /\ LET last == executed_tools[Len(executed_tools)]
                       zero == ElementZero(planning_response.content)
                   IN  /\ last.tool_name = zero.tool_name
                       /\ last.parameters = zero.parameters )
    /\ [][ ( pc = "planning" /\ pc' = "executing" )
           => /\ tool_request' = ElementZero(planning_response'.content)
              /\ executed_tools' = executed_tools ]_vars
    /\ [][ Len(executed_tools') <= Len(executed_tools) + 1 ]_vars

C13_Witness ==
    /\ pc = "planning"
    /\ planning_response.status = "replied"
    /\ Len(ReplyDoc(planning_response.content).items) = 2
    /\ Len(executed_tools) = 1
    /\ executed_tools[1].tool_name = "get_stock_price"

\* The turn is running: between the start of _execute_tools_sequentially and its
\* return.
InTurn == pc \in { "planning", "executing", "synthesizing", "direct_response" }

\* C14: within a turn the trace is append-only: every step leaves it as it was or
\* adds one entry at its end; no entry is removed, moved or changed.
C14_TraceAppendOnly ==
    [][ InTurn
        => \/ executed_tools' = executed_tools
           \/ /\ Len(executed_tools') = Len(executed_tools) + 1
              /\ SubSeq(executed_tools', 1, Len(executed_tools)) = executed_tools ]_vars

C14_Witness ==
    /\ pc = "returned"
    /\ Len(executed_tools) = 2
    /\ executed_tools[1] # executed_tools[2]
    /\ executed_tools[1].tool_name = planned[1].tool
    /\ executed_tools[2].tool_name = planned[2].tool

\* C15: a turn in which a tool call or a model completion never returns
\* nevertheless reaches a terminal state: every started turn eventually returns.
C15_TurnReturnsDespiteHang ==
    ( InTurn \/ pc = "blocked" ) ~> ( pc = "returned" )

\* a is b or an initial part of b
IsPrefix(a, b) == Len(a) <= Len(b) /\ SubSeq(b, 1, Len(a)) = a

\* C16: the history loses entries only through 'clear': every step leaves it equal
\* to or an extension of what it was, except the 'clear' command, a step of the
\* input loop after which the history is empty.
C16_HistoryGrowsUnlessCleared ==
    [][ \/ IsPrefix(conversation_history, conversation_history')
        \/ /\ pc = "input"
           /\ pc' = "input"
           /\ conversation_history' = << >> ]_vars

\* A second turn that started on an empty history: 'clear' came between the turns.
C16_Witness ==
    /\ turns = 2
    /\ pc = "returned"
    /\ history_before = << >>
    /\ Len(conversation_history) = 2
    /\ conversation_history[2].role = "assistant"

\* Histories the object may hold when a turn starts.
PriorHistories ==
    { << >>,
      << Message("user", << "hello" >>), Message("assistant", << "hi" >>) >>,
      history_before,
      conversation_history }

\* The replies that the model's answers, the raised errors and the trace determine.
RepliesFrom(trace) ==
    { PyStrip(c) : c \in AnswerContents }
      \cup { SynthesisFallback(trace), DirectError(ChatError), QueryError(ChatError) }
      \cup { QueryError(ParsePlan(PlanningText(c)).message) : c \in PlannerContents }

\* C17: the planner never reads the history: the planning prompt of every round
\* is the one built from the query, the catalog and the trace whatever the history
\* holds, so turns that differ only in the prior history send the same prompts;
\* the trace and the reply are made of the tool outcomes and the model's answers
\* alone.
C17_PlannerIgnoresHistory ==
    /\ ( planning_prompt # NoPrompt /\ pc # "planning" )
       => \A h \in PriorHistories :
             planning_prompt = PlanningPrompt(h, current_query, executed_tools)
    /\ \A i \in 1..Len(executed_tools) :
          executed_tools[i].result
            \in { ToolResult(o) : o \in ToolOutcomes(executed_tools[i].tool_name) }
    /\ pc = "returned" => response \in RepliesFrom(executed_tools)

\* A round of a second turn, on a history that is not empty, whose prompt is the
\* prompt of the first round of a turn on the empty history.
C17_Witness ==
    /\ pc = "executing"
    /\ turns = 2
    /\ history_before # << >>
    /\ executed_tools = << >>
    /\ planning_prompt = PlanningPrompt(<< >>, current_query, << >>)

\* C18: the text returned by synthesis and by the direct response has the thinking
\* span stripped: for the model output "<think>X</think>Y" the returned text is Y,
\* and the assistant entry recorded in the history holds no thinking span.
C18_RepliesHaveNoThinkingSpan ==
    ( pc = "returned" /\ returned_by \in { "synthesis", "direct" } )
    => /\ ~Contains(response, OpenTag)
       /\ ~Contains(conversation_history[Len(conversation_history)].content, OpenTag)

\* A text: a finite sequence of symbols.
IsText(x) == x \in Seq(STRING)

\* C19: _generate_direct_response never raises: it returns the model's answer or,
\* when ollama.chat fails, an error-description string; whatever the model and
\* the tools do, a running turn goes on or returns, and what it returns is a text.
C19_TurnAlwaysReturnsText ==
    /\ [] ( pc = "returned"
            => /\ IsText(response)
               /\ returned_by \in { "synthesis", "synthesis_fallback", "direct",
                                    "direct_error", "query_error" } )
    /\ [][ pc = "direct_response"
           => /\ pc' = "returned"
              /\ \/ returned_by' = "direct"
                 \/ /\ returned_by' = "direct_error"
                    /\ response' = << "Error generating response: " >> \o ChatError
           ]_vars
    /\ [][ InTurn => ( pc' \in { "planning", "executing", "synthesizing",
                                 "direct_response", "returned" } ) ]_vars

C19_Witness ==
    /\ pc = "returned"
    /\ returned_by = "direct_error"
    /\ Head(response) = "Error generating response: "
    /\ conversation_history[Len(conversation_history)].role = "user"

\* C20: the result recorded for a tool call that returned is the text of the first
\* content part, or "No result" when the tool returned no part; the text of a
\* later part is in no entry of the trace.
C20_FirstPartRecorded ==
    ( pc = "planning" /\ executed_tools # << >> /\ ~tool_result.raises )
    => LET last  == executed_tools[Len(executed_tools)]
           parts == tool_result.parts
       IN  /\ last.result = IF parts = << >> THEN << "No result" >> ELSE parts[1]
           /\ \A k \in 2..Len(parts) :
                \A i \in 1..Len(executed_tools) :
                   ~Contains(executed_tools[i].result, parts[k])

C20_Witness ==
    /\ pc = "planning"
    /\ Len(executed_tools) = 2
    /\ ~tool_result.raises
    /\ Len(tool_result.parts) = 2
    /\ executed_tools[2].result = tool_result.parts[1]
    /\ executed_tools[1].result = << "No result" >>

\* C21: every turn starts planning with an empty trace: the trace, the planning
\* prompt and the synthesis prompt of a turn hold entries of the dispatches of
\* this turn only, none that an earlier turn created.
C21_TurnStartsWithEmptyTrace ==
    /\ [][ ( pc = "input" /\ pc' = "planning" )
           => /\ executed_tools' = << >>
              /\ planning_response' = NoPlanning ]_vars
    /\ [] ( /\ Len(executed_tools) = Len(raised)
            /\ Len(planning_prompt.context) <= Len(raised)
            /\ synthesis_prompt.count <= Len(raised)
            /\ Len(synthesis_prompt.results) <= Len(raised) )

\* The first round of a second turn, after a first turn that dispatched a tool.
C21_Witness ==
    /\ turns = 2
    /\ dispatches = 1
    /\ pc = "executing"
    /\ raised = << >>
    /\ executed_tools = << >>
    /\ planning_prompt.context = << >>

\* C22: the operations of a turn are strictly sequential: the planning call of a
\* round is issued only when every earlier request of the turn has returned or
\* raised and has its entry in the trace, and the prompt of that round already
\* holds that entry; while a tool call is outstanding no planning call is made.
C22_StrictlySequential ==
    /\ [] ( pc = "planning"
            => /\ Len(executed_tools) = Len(planned)
               /\ Len(raised) = Len(planned) )
    /\ [] ( pc = "executing"
            => /\ Len(planned) = Len(executed_tools) + 1
               /\ Len(planning_prompt.context) = Len(executed_tools) )
    /\ [][ pc = "executing"
           => /\ pc' = "planning"
              /\ planned' = planned
              /\ Len(executed_tools') = Len(planned) ]_vars
    /\ [][ ( pc = "planning" /\ pc' = "executing" )
           => Len(planning_prompt'.context) = Len(planned) ]_vars

\* The second planning call of a turn has been answered with a request: the entry
\* of the first round is in the trace and in the prompt.
C22_Witness ==
    /\ pc = "executing"
    /\ Len(planned) = 2
    /\ Len(executed_tools) = 1
    /\ Len(planning_prompt.context) = 1
    /\ planning_prompt.context[1][2] = executed_tools[1].result

\* C23: the history changes at the boundaries of a turn only: once the user entry
\* is appended it stays as it is through every planning and tool round, until the
\* turn is in synthesis or in the direct response.
C23_HistoryFixedDuringRounds ==
    /\ [] ( InTurn
            => conversation_history
                 = history_before \o << Message("user", current_query) >> )
    /\ [][ ( pc = "planning" \/ pc = "executing" )
           => conversation_history' = conversation_history ]_vars

C23_Witness ==
    /\ pc = "synthesizing"
    /\ Len(executed_tools) = 2
    /\ history_before # << >>
    /\ conversation_history = history_before \o << Message("user", current_query) >>

\* C24: a failure inside a turn does not end the session: the turn returns, the
\* loop prints what it returned and reads the next line, which may start a new
\* turn; the loop is left only from its prompt, by 'quit' or by Ctrl-C.
C24_LoopSurvivesFailures ==
    /\ [][ pc = "returned"
           => /\ pc' = "input"
              /\ conversation_history' = conversation_history
              /\ turns' = turns ]_vars
    /\ [][ ( pc' = "stopped" /\ pc # "stopped" )
           => /\ pc = "input"
              /\ ENABLED Quit
              /\ ENABLED KeyboardInterrupt ]_vars
    /\ [] ( ( pc = "input" /\ turns < MaxTurns ) => ENABLED ProcessQuery )

\* A second turn runs after a first turn that returned an error string.
C24_Witness ==
    /\ turns = 2
    /\ pc = "planning"
    /\ Len(conversation_history) = 2
    /\ conversation_history[1].role = "user"
    /\ conversation_history[2].role = "user"

\* C25: the planning prompt of every round quotes the query as the user typed it
\* and the result of every entry the trace holds at that moment, in trace order,
\* "Error:" results included; synthesis gets the same query and the whole trace.
C25_PromptsCarryQueryAndTrace ==
    /\ ( planning_prompt # NoPrompt /\ pc # "planning" )
       => /\ planning_prompt.query = current_query
          /\ conversation_history[Len(history_before) + 1]
                = Message("user", planning_prompt.query)
          /\ Len(planning_prompt.context) = Len(executed_tools)
          /\ \A i \in 1..Len(executed_tools) :
                planning_prompt.context[i]
                  = << executed_tools[i].tool_name, executed_tools[i].result >>
    /\ synthesis_prompt # NoSynthesisPrompt
       => /\ synthesis_prompt.query = current_query
          /\ synthesis_prompt.count = Len(executed_tools)
          /\ Len(synthesis_prompt.results) = Len(executed_tools)
          /\ \A i \in 1..Len(executed_tools) :
                synthesis_prompt.results[i]
                  = << i, executed_tools[i].tool_name, executed_tools[i].result >>

C25_Witness ==
    /\ pc = "synthesizing"
    /\ Len(executed_tools) = 2
    /\ Head(executed_tools[1].result) = "Error: "
    /\ planning_prompt.context[1][2] = executed_tools[1].result
    /\ planning_prompt.context[2][2] = executed_tools[2].result
    /\ synthesis_prompt.results[2][3] = executed_tools[2].result

\* C26: the planner strips the thinking span before it parses: for a reply
\* <think>X</think>J, X holding no marker, the outcome of the planning (no tool,
\* the tool request, or the failure) is the outcome for the reply J alone.
C26_ThinkingSpanIgnoredByPlanner ==
    plan_pc = "done" => plan_wrapped = plan_bare

\* The same for replies J that hold no marker themselves.
MarkerFreeRepliesAgree ==
    ( /\ plan_pc = "done"
      /\ ~Contains(reply_text, OpenTag)
      /\ ~Contains(reply_text, CloseTag) )
    => plan_wrapped = plan_bare

SearchOver == search_pc \in { "returned", "raised" }

C28_BackoffOnlyBeforeRetry ==
    /\ Len(sleeps) = Len(statuses)
    /\ \A k \in 1..Len(statuses) :
          /\ statuses[k] = 429 => sleeps[k] = base_sleep * (2 ^ (k - 1))
          /\ statuses[k] # 429 => sleeps[k] = 0
          /\ ( k > 1 /\ statuses[k] = 429 /\ statuses[k - 1] = 429 )
             => sleeps[k] = 2 * sleeps[k - 1]
          /\ sleeps[k] > 0 => k < max_retries

\* C29: a response whose status is neither 200 nor 429 ends the search at once with
\* an error other than the rate-limit RuntimeError, and that RuntimeError is raised
\* only when every attempt returned 429.
C29_OtherStatusEndsSearch ==
    /\ \A k \in 1..Len(statuses) :
          statuses[k] \notin { 200, 429 }
          => /\ k = Len(statuses)
             /\ search_pc = "raised"
             /\ search_outcome # "RuntimeError"
    /\ search_outcome = "RuntimeError"
       => \A k \in 1..Len(statuses) : statuses[k] = 429

\* The sector names the tool's description lists.
ListedSectors ==
    { "Information Technology", "Health Care", "Financials", "Consumer Discretionary",
      "Communication Services", "Industrials", "Consumer Staples", "Utilities",
      "Energy", "Real Estate", "Materials" }

SectorValueError ==
    sector_outcome.raises /\ Head(sector_outcome.message) = "Unknown sector: "

\* C30: get_sector_metrics accepts exactly the eleven listed names: for any other
\* sector_name it raises ValueError before any call to the data provider, and the
\* executor records the failure as a trace entry beginning with "Error: " and goes
\* on to the next planning round; for a listed name it raises no ValueError and
\* goes on to the provider.
C30_UnlistedSectorRejected ==
    /\ sector_name \notin ListedSectors
       => /\ provider_calls = 0
          /\ sector_pc \in { "called", "failed", "recorded" }
          /\ sector_pc # "called" => SectorValueError
    /\ sector_name \in ListedSectors
       => /\ ~SectorValueError
          /\ sector_pc \in { "failed", "done", "recorded" } => provider_calls >= 1
    /\ sector_pc = "recorded"
       => /\ pc = "planning"
          /\ Len(executed_tools) = 1
          /\ executed_tools[1].tool_name = "get_stock_sector_metrics"
          /\ executed_tools[1].parameters = << sector_name, period >>
          /\ sector_name \notin ListedSectors
             => executed_tools[1].result
                  = << "Error: ", "Unknown sector: ", sector_name >>

C30_Witness ==
    /\ sector_pc = "recorded"
    /\ sector_name = "energy"
    /\ provider_calls = 0
    /\ pc = "planning"
    /\ Head(executed_tools[1].result) = "Error: "

\* The number of entries of a history with the given role.
RoleCount(history, role) ==
    Cardinality({ i \in 1..Len(history) : history[i].role = role })

\* C33: the conversation history never holds two consecutive assistant entries,
\* every assistant entry comes right after a user entry, there are never more
\* assistant entries than user entries, and no step appends more than one entry.
C33_HistoryWellFormed ==
    /\ [] ( /\ \A i \in 1..Len(conversation_history) :
                  conversation_history[i].role = "assistant"
                  => /\ i > 1
                     /\ conversation_history[i - 1].role = "user"
            /\ \A i \in 1..Len(conversation_history) :
                  conversation_history[i].role \in { "user", "assistant" }
            /\ RoleCount(conversation_history, "assistant")
                  <= RoleCount(conversation_history, "user") )
    /\ [][ Len(conversation_history') <= Len(conversation_history) + 1 ]_vars

C33_Witness ==
    /\ Len(conversation_history) = 3
    /\ conversation_history[1].role = "user"
    /\ conversation_history[2].role = "user"
    /\ conversation_history[3].role = "assistant"

\* The line read in this step, lower-cased.
LoweredInput == PyLower(user_input')

\* No planning call, tool call or completion call is made in this step.
NoCallMade ==
    /\ pc' \in { "input", "stopped" }
    /\ planning_response' = planning_response
    /\ dispatches' = dispatches
    /\ nsynth' = nsynth
    /\ ndirect' = ndirect
    /\ turns' = turns

\* C34: at the prompt the lines 'tools', 'quit' and the empty line (in any case,
\* trimmed) start no turn, leave the history as it is and cause no call; the
\* history changes there only by 'clear' or by a turn starting, and a turn starts
\* only for a line that is neither empty nor a command.
C34_CommandsStartNoTurn ==
    [][ /\ ( /\ pc = "input"
             /\ \/ LoweredInput \in { << "tools" >>, << "quit" >> }
                \/ user_input' = << >> )
           => /\ conversation_history' = conversation_history
              /\ NoCallMade
        /\ ( pc = "input" /\ LoweredInput = << "clear" >> )
           => /\ conversation_history' = << >>
              /\ NoCallMade
        /\ ( pc = "input" /\ conversation_history' # conversation_history )
           => \/ LoweredInput = << "clear" >>
              \/ pc' = "planning"
        /\ turns' # turns
           => /\ pc = "input"
              /\ pc' = "planning"
              /\ user_input' # << >>
              /\ LoweredInput \notin { << "tools" >>, << "quit" >>, << "clear" >> }
              /\ current_query' = user_input'
              /\ conversation_history'
                   = Append(conversation_history, Message("user", user_input'))
      ]_vars

C34_Witness ==
    /\ pc = "input"
    /\ user_input = << "TOOLS" >>
    /\ turns = 1
    /\ Len(conversation_history) = 2

\* C31: the criteria resource returns the selection-criteria text, and the system
\* message summarize_stock_data builds holds those criteria.
C31_SystemMessageHoldsCriteria ==
    system_msg # << >>
    => /\ get_decision_criteria = [is_none |-> FALSE, text |-> decision_criteria]
       /\ Contains(system_msg, decision_criteria)

\* C32: get_data_in_shape returns a result without raising for every price
\* history, and a history in which no resistance point (no support point) is found
\* gets null resistance (support) levels.
C32_ShapeNeverRaises ==
    /\ tech_pc # "raised"
    /\ ~tech_result.raises
    /\ tech_pc = "returned"
       => /\ ResistanceRows(data) = {} => tech_result.Ressistance_levels.is_none
          /\ SupportRows(data) = {} => tech_result.Support_levels.is_none

====
